---- MODULE Spec2Model ----
(***************************************************************************)
(* SenangWebs Index (SWI): the data -> filteredData -> currentPage ->       *)
(* rendered view state machine of class SenangWebsIndex (v1.1.0) and its    *)
(* declarative subclass SWIDeclarativeInstance.                             *)
(*                                                                         *)
(* Strings are sequences of one-character strings, so that toLowerCase,     *)
(* trim, toString and includes are computed and not assumed.                *)
(***************************************************************************)
EXTENDS Integers, Sequences, FiniteSets, TLC

\* ------------------------------------------------------------------ bounds
\* Longest literal / fetched dataset explored by Spec and SpecCore.
MaxData == 2
\* Largest page number passed to goToPage() (the smallest is 0).
MaxPageArg == 3
\* Largest dataset explored by SpecPaging (records numbered 1..n).
MaxBigData == 25
\* Largest itemsPerPage explored by SpecPaging.
MaxBigPerPage == 10
\* Input events counted within one debounce window (later ones are not told
\* apart).
MaxBurst == 2

\* ----------------------------------------------------------------- strings
Min(a, b) == IF a < b THEN a ELSE b
Max(a, b) == IF a > b THEN a ELSE b

\* String.prototype.toLowerCase on the characters of the model's alphabet.
LowerChar(c) == CASE c = "A" -> "a" [] c = "B" -> "b" [] OTHER -> c
toLowerCase(s) == [i \in 1..Len(s) |-> LowerChar(s[i])]

\* String.prototype.trim: strips leading and trailing blanks.
RECURSIVE TrimLeft(_)
TrimLeft(s) == IF s # <<>> /\ Head(s) = " " THEN TrimLeft(Tail(s)) ELSE s
RECURSIVE TrimRight(_)
TrimRight(s) ==
  IF s # <<>> /\ s[Len(s)] = " " THEN TrimRight(SubSeq(s, 1, Len(s) - 1)) ELSE s
trim(s) == TrimRight(TrimLeft(s))

\* String.prototype.includes: t occurs in s as a contiguous substring.
includes(s, t) ==
  \E i \in 0..(Len(s) - Len(t)) : SubSeq(s, i + 1, i + Len(t)) = t

\* Number.prototype.toString for integers (decimal digits, leading minus).
DigitChar(d) ==
  CASE d = 0 -> "0" [] d = 1 -> "1" [] d = 2 -> "2" [] d = 3 -> "3" [] d = 4 -> "4"
    [] d = 5 -> "5" [] d = 6 -> "6" [] d = 7 -> "7" [] d = 8 -> "8" [] OTHER -> "9"
RECURSIVE Digits(_)
Digits(n) == IF n < 10 THEN <<DigitChar(n)>> ELSE Digits(n \div 10) \o <<DigitChar(n % 10)>>
NumberToString(n) == IF n < 0 THEN <<"-">> \o Digits(0 - n) ELSE Digits(n)

\* ------------------------------------------------------------ field values
\* A field value of a Record: string, number, null, or undefined (absent key).
Str(s) == [kind |-> "string", s |-> s, n |-> 0]
Num(n) == [kind |-> "number", s |-> <<>>, n |-> n]
Null == [kind |-> "null", s |-> <<>>, n |-> 0]
Undefined == [kind |-> "undefined", s |-> <<>>, n |-> 0]

\* JavaScript truthiness of a field value: '', 0, null and undefined are falsy.
Truthy(v) ==
  CASE v.kind = "string" -> v.s # <<>>
    [] v.kind = "number" -> v.n # 0
    [] OTHER -> FALSE

\* value.toString() of a truthy field value.
toString(v) == IF v.kind = "number" THEN NumberToString(v.n) ELSE v.s

\* item[key]: an absent key reads as undefined, never raises.
Field(item, key) == IF key \in DOMAIN item THEN item[key] ELSE Undefined

\* ------------------------------------------------------------------ errors
\* An Error object: its message, as pieces of text. NoError: no error.
Error(message) == [message |-> message]
NoError == Error(<<>>)
\* A fetch Response that is not ok: its status and statusText.
Response(status, statusText) == [status |-> status, statusText |-> statusText]
FailedResponses ==
  { Response(404, "Not Found"), Response(500, "Internal Server Error") }
\* new Error(`HTTP ${response.status}: ${response.statusText}`)
HttpError(response) ==
  Error(<<"HTTP ">> \o NumberToString(response.status) \o <<": ", response.statusText>>)
\* fetch() itself rejects (no response at all).
NetworkError == Error(<<"Failed to fetch">>)
\* new Error('SWI: Data items must be objects') of a literal array.
ItemsError == Error(<<"SWI: Data items must be objects">>)
\* new Error('Data must be an array of objects'): the JSON body of the
\* response is not an array.
ArrayError == Error(<<"Data must be an array of objects">>)
\* new Error('Data items must be objects') of a fetched array.
RemoteItemsError == Error(<<"Data items must be objects">>)
\* What _loadData() throws for a resource identifier in this model.
FetchErrors == {HttpError(r) : r \in FailedResponses} \cup {NetworkError}

\* ----------------------------------------------------------------- records
Item(name, category) == [name |-> name, category |-> category]
\* The Records datasets are built from: strings in both cases, the numbers 0
\* and 10, a null field and an absent field.
RecordPool ==
  { Item(Str(<<"A", "b">>), Str(<<"b", "0">>)),
    Item(Num(0), Num(10)),
    Item(Undefined, Null) }

\* An element that is an array itself ([[1, 2]]): typeof gives 'object', and
\* it has no property under any search key.
NestedElement == [length |-> Num(2)]
\* The element is a Record (a plain object with fields), not an array.
IsRecord(element) == element # NestedElement

RECURSIVE SeqsUpTo(_, _)
SeqsUpTo(S, n) ==
  IF n = 0 THEN {<<>>}
  ELSE LET shorter == SeqsUpTo(S, n - 1)
       IN shorter \cup {Append(s, x) : s \in {t \in shorter : Len(t) = n - 1}, x \in S}

Datasets == SeqsUpTo(RecordPool, MaxData)

\* The queries typed or passed to search(): empty, blank, a digit, a letter in
\* each case, two letters, and a letter after a blank.
Queries ==
  { <<>>, <<" ">>, <<"0">>, <<"b">>, <<"A">>, <<"a", "B">>, <<" ", "b">> }
\* The values typed into the search input: cleared, a letter, a digit.
TypedValues == { <<>>, <<"b">>, <<"0">> }
PageArgs == 0..MaxPageArg

\* ------------------------------------------------- Configuration Normalizer
\* Raw constructor options. form: "absent" (undefined), "boolean", "object".
\* In an object, enabled is "absent", "true" or "false"; hasPerPage tells
\* whether itemsPerPage is given; searchKey is RawKey(...).
NoSelector == "none"
RawPagination(form, bool, enabled, selector, hasPerPage, itemsPerPage) ==
  [form |-> form, bool |-> bool, enabled |-> enabled, selector |-> selector,
   hasPerPage |-> hasPerPage, itemsPerPage |-> itemsPerPage]
PaginationAbsent == RawPagination("absent", FALSE, "absent", NoSelector, FALSE, 0)
PaginationBool(b) == RawPagination("boolean", b, "absent", NoSelector, FALSE, 0)
PaginationObject(enabled, selector, n) ==
  RawPagination("object", FALSE, enabled, selector, TRUE, n)
PaginationObjectDefault(enabled, selector) ==
  RawPagination("object", FALSE, enabled, selector, FALSE, 0)

\* searchKey as given: kind "undefined", "string" (keys = <<k>>) or "array".
RawKey(kind, keys) == [kind |-> kind, keys |-> keys]
NoKey == RawKey("undefined", <<>>)
RawSearch(form, bool, enabled, selector, searchKey) ==
  [form |-> form, bool |-> bool, enabled |-> enabled, selector |-> selector,
   searchKey |-> searchKey]
SearchAbsent == RawSearch("absent", FALSE, "absent", NoSelector, NoKey)
SearchBool(b) == RawSearch("boolean", b, "absent", NoSelector, NoKey)
SearchObject(enabled, selector, key) == RawSearch("object", FALSE, enabled, selector, key)

\* The default page size of _parsePaginationConfig.
DefaultItemsPerPage == 10

\* Variant of _parsePaginationConfig: an object enables pagination only when
\* its enabled field is true.
ParsePaginationEnabledOnlyIfTrue(pagination) ==
  IF pagination.form = "absent" \/ (pagination.form = "boolean" /\ ~pagination.bool)
  THEN [enabled |-> FALSE, selector |-> NoSelector,
        itemsPerPage |-> DefaultItemsPerPage, containerElement |-> FALSE]
  ELSE IF pagination.form = "boolean"
  THEN [enabled |-> pagination.bool, selector |-> NoSelector,
        itemsPerPage |-> DefaultItemsPerPage, containerElement |-> FALSE]
  ELSE [enabled |-> pagination.enabled = "true",
        selector |-> pagination.selector,
        itemsPerPage |-> IF pagination.hasPerPage /\ pagination.itemsPerPage # 0
                         THEN pagination.itemsPerPage ELSE DefaultItemsPerPage,
        containerElement |-> FALSE]

\* _parsePaginationConfig: `!pagination` covers undefined and false.
\* `pagination.itemsPerPage || 10` replaces an absent or zero value only.
_parsePaginationConfig(pagination) ==
  IF pagination.form = "absent" \/ (pagination.form = "boolean" /\ ~pagination.bool)
  THEN [enabled |-> FALSE, selector |-> NoSelector,
        itemsPerPage |-> DefaultItemsPerPage, containerElement |-> FALSE]
  ELSE IF pagination.form = "boolean"
  THEN [enabled |-> pagination.bool, selector |-> NoSelector,
        itemsPerPage |-> DefaultItemsPerPage, containerElement |-> FALSE]
  ELSE [enabled |-> pagination.enabled # "false",
        selector |-> pagination.selector,
        itemsPerPage |-> IF pagination.hasPerPage /\ pagination.itemsPerPage # 0
                         THEN pagination.itemsPerPage ELSE DefaultItemsPerPage,
        containerElement |-> FALSE]

\* _parseSearchConfig: the absent and boolean forms carry no searchKey;
\* `search.searchKey || 'name'` replaces an absent key (or the empty string).
_parseSearchConfig(search) ==
  IF search.form = "absent" \/ (search.form = "boolean" /\ ~search.bool)
  THEN [enabled |-> FALSE, selector |-> NoSelector, searchKey |-> NoKey,
        inputElement |-> FALSE, actionElement |-> FALSE]
  ELSE IF search.form = "boolean"
  THEN [enabled |-> search.bool, selector |-> NoSelector, searchKey |-> NoKey,
        inputElement |-> FALSE, actionElement |-> FALSE]
  ELSE [enabled |-> search.enabled # "false",
        selector |-> search.selector,
        searchKey |-> IF search.searchKey.kind = "undefined"
                         \/ (search.searchKey.kind = "string" /\ search.searchKey.keys = <<"">>)
                      THEN RawKey("string", <<"name">>) ELSE search.searchKey,
        inputElement |-> FALSE, actionElement |-> FALSE]

\* ------------------------------------------------------------ Search Engine
\* search(): `Array.isArray(searchKey) ? searchKey : [searchKey]`; an
\* undefined searchKey is looked up as the property named "undefined".
SearchKeysOf(searchKey) ==
  IF searchKey.kind = "array" THEN searchKey.keys
  ELSE IF searchKey.kind = "string" THEN searchKey.keys
  ELSE <<"undefined">>

\* `value && value.toString().toLowerCase().includes(lowerQuery)`
ValueMatches(value, lowerQuery) ==
  Truthy(value) /\ includes(toLowerCase(toString(value)), lowerQuery)

\* searchKeys.some(key => ...)
ItemMatches(item, searchKeys, lowerQuery) ==
  \E k \in 1..Len(searchKeys) : ValueMatches(Field(item, searchKeys[k]), lowerQuery)

\* Array.prototype.filter keeps the matching items in their order.
RECURSIVE FilterItems(_, _, _)
FilterItems(items, searchKeys, lowerQuery) ==
  IF items = <<>> THEN <<>>
  ELSE LET rest == FilterItems(Tail(items), searchKeys, lowerQuery)
       IN IF ItemMatches(Head(items), searchKeys, lowerQuery)
          THEN <<Head(items)>> \o rest ELSE rest

\* Variant of IsBlankQuery: the trim() test is left out.
IsBlankQueryNoTrim(query) == query = <<>>

\* `!query || query.trim() === ''`
IsBlankQuery(query) == query = <<>> \/ trim(query) = <<>>

\* Variant of SearchResult: the matches come out last-first.
SearchResultReversed(items, searchKey, query) ==
  LET kept == IF IsBlankQuery(query) THEN items
              ELSE FilterItems(items, SearchKeysOf(searchKey), toLowerCase(query))
  IN [i \in 1..Len(kept) |-> kept[Len(kept) + 1 - i]]

\* The filteredData that search(query) assigns.
SearchResult(items, searchKey, query) ==
  IF IsBlankQuery(query) THEN items
  ELSE FilterItems(items, SearchKeysOf(searchKey), toLowerCase(query))

\* -------------------------------------------------------- Pagination Engine
\* Math.ceil(n / d) for n >= 0 and d # 0 (d may be negative).
CeilDiv(n, d) ==
  IF d > 0 THEN (n + d - 1) \div d ELSE 0 - (n \div (0 - d))

\* totalPages as goToPage and _renderPagination compute it.
TotalPages(items, itemsPerPage) == CeilDiv(Len(items), itemsPerPage)

\* Array.prototype.slice(start, end): negative indices count from the end,
\* both are clamped to the array.
RelativeIndex(i, len) == IF i < 0 THEN Max(len + i, 0) ELSE Min(i, len)
slice(items, start, end) ==
  SubSeq(items, RelativeIndex(start, Len(items)) + 1, RelativeIndex(end, Len(items)))

\* Variant of _getPaginatedData: the `enabled` test is left out.
GetPaginatedDataAlwaysSliced(items, page, config) ==
  slice(items, (page - 1) * config.itemsPerPage, page * config.itemsPerPage)

\* Variant of _getPaginatedData: the slice takes one item more.
GetPaginatedDataOneMore(items, page, config) ==
  IF ~config.enabled THEN items
  ELSE LET start == (page - 1) * config.itemsPerPage
           end == start + config.itemsPerPage + 1
       IN slice(items, start, end)

\* _getPaginatedData
_getPaginatedData(items, page, config) ==
  IF ~config.enabled THEN items
  ELSE LET start == (page - 1) * config.itemsPerPage
           end == start + config.itemsPerPage
       IN slice(items, start, end)

\* ------------------------------------------------------------ View Renderer
\* The items region (this.container): what it currently shows.
\* `details` is the detail paragraph of an error block: the characters of an
\* error message, <<>> when the block has none.
Surface(kind, items, message) ==
  [kind |-> kind, items |-> items, message |-> message, details |-> <<>>]
Blank == Surface("blank", <<>>, "")
LoadingIndicator == Surface("loading", <<>>, "Loading data...")
ErrorBlock(message, details) ==
  [Surface("error", <<>>, message) EXCEPT !.details = details]
NoDataMessage == "No data available"
NoResultsMessage == "No results found. Try a different search term."
EmptyState(message) == Surface("empty-state", <<>>, message)
\* One appended element per item, in order; the element of an item is
\* identified with the item it was produced from.
ItemElements(items) == Surface("items", items, "")

\* The pagination region: a control strip for `total` pages with `current`
\* marked active, or nothing (total = 0).
Controls(total, current) == [total |-> total, current |-> current]
NoControls == Controls(0, 0)

\* Variant of RenderedItems: one message for every empty slice.
RenderedItemsOneMessage(allData, items, page, config) ==
  LET paginatedData == _getPaginatedData(items, page, config)
  IN IF Len(paginatedData) = 0
     THEN EmptyState(NoResultsMessage)
     ELSE ItemElements(paginatedData)

\* What render() leaves in the items region.
RenderedItems(allData, items, page, config) ==
  LET paginatedData == _getPaginatedData(items, page, config)
  IN IF Len(paginatedData) = 0
     THEN EmptyState(IF Len(allData) = 0 THEN NoDataMessage ELSE NoResultsMessage)
     ELSE ItemElements(paginatedData)

\* The buttons of a strip as _renderPagination writes them: Previous
\* (data-page current-1, disabled on page 1), one per page (the current one
\* in an swi-active item), Next (data-page current+1, disabled on the last
\* page). No strip, no buttons.
Button(label, page, disabled, active) ==
  [label |-> label, page |-> page, disabled |-> disabled, active |-> active]
StripButtons(controls) ==
  IF controls.total = 0 THEN <<>>
  ELSE <<Button("Previous", controls.current - 1, controls.current = 1, FALSE)>>
       \o [i \in 1..controls.total |-> Button("page", i, FALSE, i = controls.current)]
       \o <<Button("Next", controls.current + 1, controls.current = controls.total, FALSE)>>

\* Variant of _renderPagination: the strip always marks page 1.
RenderPaginationFirstPageActive(items, page, config) ==
  LET totalPages == TotalPages(items, config.itemsPerPage)
  IN IF totalPages <= 1 THEN NoControls ELSE Controls(totalPages, 1)

\* _renderPagination: cleared when totalPages <= 1, else the control strip.
_renderPagination(items, page, config) ==
  LET totalPages == TotalPages(items, config.itemsPerPage)
  IN IF totalPages <= 1 THEN NoControls ELSE Controls(totalPages, page)

\* What render() leaves in the pagination region, given what it held.
RenderedControls(old, items, page, config) ==
  IF ~(config.enabled /\ config.containerElement) THEN old
  ELSE IF Len(_getPaginatedData(items, page, config)) = 0 THEN NoControls
  ELSE _renderPagination(items, page, config)

\* The number of click bindings one render() pushes on the registry: one per
\* button of the strip (Previous, 1..totalPages, Next).
ButtonsOf(controls) == IF controls.total = 0 THEN 0 ELSE controls.total + 2

\* ----------------------------------------------------------- instance state
VARIABLES
  options,          \* the constructor's options (never assigned afterwards)
  data,             \* this.data: the Dataset
  filteredData,     \* this.filteredData: the FilteredView
  currentPage,      \* this.currentPage
  searchConfig,     \* this.searchConfig
  paginationConfig, \* this.paginationConfig
  eventListeners,   \* this.eventListeners: bindings per kind of element
  container,        \* what the items region shows
  pagination,       \* what the pagination region shows
  inputValue,       \* the value of the search input element
  timer,            \* TRUE while the debounce timeout of the input handler is pending
  phase,            \* where _init() stands
  destroyed,        \* destroy() has been called
  lastOp,           \* the last operation performed: [name, query, page]
  attached,         \* handlers attached to the search input and the action control
  burst,            \* input events the pending debounce timeout has absorbed
  error,            \* the Error _loadData() threw
  unhandledRejection, \* the Error _init()'s promise rejected with, no handler attached
  scan              \* SWIDeclarativeHandler: the scan of init() and the instances Map

vars == <<options, data, filteredData, currentPage, searchConfig, paginationConfig,
          eventListeners, container, pagination, inputValue, timer, phase,
          destroyed, lastOp, attached, burst, error, unhandledRejection,
          scan>>

\* The variables of the instance.
instanceVars ==
  <<options, data, filteredData, currentPage, searchConfig, paginationConfig,
    eventListeners, container, pagination, inputValue, timer, phase,
    destroyed, lastOp, attached, burst, error, unhandledRejection>>

\* --------------------------------------------------- SWIDeclarativeHandler
\* Most elements one scan finds.
MaxCandidates == 3
\* The values of data-swi-id: '' stands for an attribute without a value.
CandidateIds == {"", "a", "b"}
RegistryIds == CandidateIds \ {""}
\* An element matching [data-swi-id]: its id, whether it has a
\* data-swi-source, whether it holds a [data-swi-template="item"] element.
Candidate(id, source, template) == [id |-> id, source |-> source, template |-> template]
\* Complete candidates under either id, and candidates lacking the id, the
\* source, the template, or all of them.
Candidates ==
  { Candidate(id, TRUE, TRUE) : id \in CandidateIds }
  \cup { Candidate("a", FALSE, TRUE), Candidate("b", TRUE, FALSE),
         Candidate("", FALSE, FALSE) }
\* createInstance(container) returns null: `!id || !source`, or no template
\* element.
ReturnsNull(candidate) ==
  candidate.id = "" \/ ~candidate.source \/ ~candidate.template
\* Most calls of init() on one document.
MaxScans == 2
\* The handler: the NodeList of the running init(), how many of its elements
\* forEach has visited, the instances Map (0: no entry, k: the k-th instance
\* created), and for each instance created the index of its container; how
\* many times init() was called, and the instances destroy() was called on
\* (none of either when the handler is set up).
Scan(containers, position, instances, created) ==
  [containers |-> containers, position |-> position, instances |-> instances,
   created |-> created, scans |-> 0, destroyed |-> {}]
NoScan == Scan(<<>>, 0, [id \in RegistryIds |-> 0], <<>>)


\* The registry grows by one entry per pagination button on every render and
\* is emptied only by destroy(); the model counts button entries up to
\* MaxRegistry and stops counting there.
MaxRegistry == 4

Op(name, query, page) == [name |-> name, query |-> query, page |-> page]
Registry(input, action, buttons) == [input |-> input, action |-> action, buttons |-> buttons]
\* addEventListener / removeEventListener on the search input and the action
\* control: how many handlers each element carries.
Attached(input, action) == [input |-> input, action |-> action]

\* ------------------------------------------------------------- data sources
\* options.data: a literal array (kind "array"), a resource identifier (kind
\* "url", its payload arrives with the fetch) or any other truthy value.
\* shape "records": an array of Records; "scalars": a non-empty array whose
\* first element is not an object.
Source(kind, shape, payload) == [kind |-> kind, shape |-> shape, payload |-> payload]
ArraySources == {Source("array", "records", d) : d \in Datasets}
UrlSource == Source("url", "records", <<>>)
LiteralSources ==
  ArraySources \cup {Source("array", "scalars", <<>>), Source("other", "records", <<>>)}
\* Arrays whose first element is an array: alone, or followed by a Record.
NestedSources ==
  { Source("array", "nested", <<NestedElement>>) }
  \cup { Source("array", "nested", <<NestedElement, r>>) : r \in RecordPool }
\* typeof payload[0] !== 'object' of a non-empty array (lines 178, 199).
FirstItemIsNotObject(source) == source.shape = "scalars"

PaginationSelector == "#pagination"
SearchSelector == "#search"

PaginationOptions ==
  { PaginationAbsent, PaginationBool(FALSE), PaginationBool(TRUE),
    PaginationObject("absent", PaginationSelector, 1),
    PaginationObject("absent", PaginationSelector, 2),
    PaginationObject("false", PaginationSelector, 1),
    PaginationObject("true", PaginationSelector, 0 - 1) }

\* No search option; a single key without a selector (no input is wired,
\* search() is called by the program); two keys with a selector (the input
\* found under it is wired).
SearchOptions ==
  { SearchAbsent,
    SearchObject("absent", NoSelector, RawKey("string", <<"name">>)),
    SearchObject("absent", SearchSelector, RawKey("array", <<"name", "category">>)) }

Options(declarative, source, search, pag, inputElement, actionElement) ==
  [declarative |-> declarative, data |-> source, search |-> search, pagination |-> pag,
   inputElement |-> inputElement, actionElement |-> actionElement]

\* new SenangWebsIndex({container, data, itemTemplate, search, pagination}):
\* every literal source with every search and pagination option, and a
\* resource identifier with the multi-field search and each page size.
ProgrammaticOptions ==
  { Options(FALSE, src, s, p, FALSE, FALSE) :
      src \in LiteralSources, s \in SearchOptions, p \in PaginationOptions }
  \cup
  { Options(FALSE, UrlSource,
            SearchObject("absent", SearchSelector, RawKey("array", <<"name", "category">>)),
            p, FALSE, FALSE) :
      p \in {PaginationAbsent, PaginationObject("absent", PaginationSelector, 1),
              PaginationObject("absent", PaginationSelector, 2)} }

\* new SWIDeclarativeInstance(config) as SWIDeclarativeHandler.createInstance
\* builds config: search {enabled: !!searchInput, selector: null, searchKey,
\* inputElement, actionElement}, pagination {enabled, selector, itemsPerPage}.
DeclarativeOptions ==
  { Options(TRUE, src,
            SearchObject("true", NoSelector, RawKey("string", <<"name">>)),
            PaginationObject("true", PaginationSelector, 1), TRUE, action) :
      src \in {UrlSource}, action \in BOOLEAN }

ConstructorOptions == ProgrammaticOptions \cup DeclarativeOptions

\* ------------------------------------------------------------- construction
\* The state when `new` returns: the constructor has run _init() up to its
\* first await. _loadData() has run its synchronous part: a literal array is
\* validated and assigned at once, a fetch is started, any other source is
\* left alone. The declarative constructor has stored its elements.
InitWith(o) ==
  /\ options = o
  /\ data = IF o.data.kind = "array" /\ ~FirstItemIsNotObject(o.data)
            THEN o.data.payload ELSE <<>>
  /\ filteredData = data
  /\ currentPage = 1
  /\ searchConfig = [_parseSearchConfig(o.search) EXCEPT
                       !.inputElement = o.declarative /\ o.inputElement,
                       !.actionElement = o.declarative /\ o.actionElement]
  /\ paginationConfig = _parsePaginationConfig(o.pagination)
  /\ eventListeners = Registry(0, 0, 0)
  /\ container = LoadingIndicator
  /\ pagination = NoControls
  /\ inputValue = <<>>
  /\ timer = FALSE
  /\ phase = CASE o.data.kind = "url" -> "fetching"
               [] o.data.kind = "array" /\ FirstItemIsNotObject(o.data) -> "rejected"
               [] OTHER -> "loaded"
  /\ destroyed = FALSE
  /\ lastOp = Op("new", <<>>, 0)
  /\ scan = NoScan
  /\ attached = Attached(0, 0)
  /\ burst = 0
  /\ error = IF o.data.kind = "array" /\ FirstItemIsNotObject(o.data)
             THEN ItemsError ELSE NoError
  /\ unhandledRejection = NoError

Init == \E o \in ConstructorOptions : InitWith(o)

\* ------------------------------------------------------------------ actions
\* Variant of Render: the container is not cleared first, the elements of
\* the page are appended to the items already there.
RenderAppending(allData, items, page, config, listeners) ==
  LET strip == RenderedControls(NoControls, items, page, config)
      rendered == RenderedItems(allData, items, page, config)
  IN /\ container' = IF container.kind = "items" /\ rendered.kind = "items"
                      THEN ItemElements(container.items \o rendered.items)
                      ELSE rendered
     /\ pagination' = RenderedControls(pagination, items, page, config)
     /\ eventListeners' =
          [listeners EXCEPT !.buttons = Min(MaxRegistry, @ + ButtonsOf(strip))]

\* render(): the items region, the pagination region and the bindings pushed
\* for the new buttons, computed from the state the caller leaves.
Render(allData, items, page, config, listeners) ==
  LET strip == RenderedControls(NoControls, items, page, config)
  IN /\ container' = RenderedItems(allData, items, page, config)
     /\ pagination' = RenderedControls(pagination, items, page, config)
     /\ eventListeners' =
          [listeners EXCEPT !.buttons = Min(MaxRegistry, @ + ButtonsOf(strip))]

\* Variant of FetchOk: the FilteredView is not set from the loaded data.
FetchOkKeepingView(payload) ==
  /\ phase = "fetching"
  /\ data' = payload
  /\ phase' = "loaded"
  /\ lastOp' = Op("load", <<>>, 0)
  /\ UNCHANGED scan
  /\ UNCHANGED <<options, filteredData, currentPage, searchConfig, paginationConfig,
                 eventListeners, container, pagination, inputValue, timer, destroyed,
                 attached, burst, error, unhandledRejection>>

\* _loadData() after a successful fetch of an array of Records.
FetchOk(payload) ==
  /\ phase = "fetching"
  /\ data' = payload
  /\ filteredData' = payload
  /\ phase' = "loaded"
  /\ lastOp' = Op("load", <<>>, 0)
  /\ UNCHANGED scan
  /\ UNCHANGED <<options, currentPage, searchConfig, paginationConfig, eventListeners,
                 container, pagination, inputValue, timer, destroyed, attached, burst,
                 error, unhandledRejection>>

\* _loadData() when the fetch fails or reports a non-success status: the
\* Error is logged and thrown again.
FetchFail(thrown) ==
  /\ phase = "fetching"
  /\ phase' = "rejected"
  /\ error' = thrown
  /\ lastOp' = Op("loadFailed", <<>>, 0)
  /\ UNCHANGED scan
  /\ UNCHANGED <<options, data, filteredData, currentPage, searchConfig, paginationConfig,
                 eventListeners, container, pagination, inputValue, timer, destroyed,
                 attached, burst, unhandledRejection>>

\* _loadData() once response.json() gave the body of an ok response: a body
\* that is not an array and an array whose first element is not typeof
\* 'object' are thrown as Errors, any other array becomes the data.
FetchBody(body) ==
  CASE body.kind # "array" -> FetchFail(ArrayError)
    [] FirstItemIsNotObject(body) -> FetchFail(RemoteItemsError)
    [] OTHER -> FetchOk(body.payload)

\* Variant of SetupSearch: the declarative wiring runs before the
\* constructor stored the input and action elements, and finds none.
SetupSearchBeforeElementsStored(listeners) ==
  IF options.declarative
  THEN listeners
  ELSE IF searchConfig.enabled /\ searchConfig.selector # NoSelector
       THEN [listeners EXCEPT !.input = @ + 1]
       ELSE listeners

\* The bindings _setupSearch / _setupDeclarativeSearch push.
SetupSearch(listeners) ==
  IF options.declarative
  THEN IF searchConfig.enabled /\ searchConfig.inputElement
       THEN [listeners EXCEPT !.input = @ + 1,
                              !.action = @ + (IF searchConfig.actionElement THEN 1 ELSE 0)]
       ELSE listeners
  ELSE IF searchConfig.enabled /\ searchConfig.selector # NoSelector
       THEN [listeners EXCEPT !.input = @ + 1]
       ELSE listeners

\* Variant of InitContinue: the first render comes before the pagination
\* mount point is resolved.
InitContinueRenderingFirst ==
  /\ phase = "loaded"
  /\ phase' = "ready"
  /\ searchConfig' =
       IF ~options.declarative /\ searchConfig.enabled /\ searchConfig.selector # NoSelector
       THEN [searchConfig EXCEPT !.inputElement = TRUE] ELSE searchConfig
  /\ paginationConfig' =
       IF paginationConfig.enabled /\ paginationConfig.selector # NoSelector
       THEN [paginationConfig EXCEPT !.containerElement = TRUE] ELSE paginationConfig
  /\ Render(data, filteredData, currentPage, paginationConfig, SetupSearch(eventListeners))
  /\ attached' = Attached(attached.input + SetupSearch(Registry(0, 0, 0)).input,
                          attached.action + SetupSearch(Registry(0, 0, 0)).action)
  /\ lastOp' = Op("init", <<>>, 0)
  /\ UNCHANGED scan
  /\ UNCHANGED <<options, data, filteredData, currentPage, inputValue, timer, destroyed,
                 burst, error, unhandledRejection>>

\* _init() after `await this._loadData()` resolved: hideLoading, search
\* wiring, pagination mount point, first render.
InitContinue ==
  /\ phase = "loaded"
  /\ phase' = "ready"
  /\ searchConfig' =
       IF ~options.declarative /\ searchConfig.enabled /\ searchConfig.selector # NoSelector
       THEN [searchConfig EXCEPT !.inputElement = TRUE] ELSE searchConfig
  /\ paginationConfig' =
       IF paginationConfig.enabled /\ paginationConfig.selector # NoSelector
       THEN [paginationConfig EXCEPT !.containerElement = TRUE] ELSE paginationConfig
  /\ Render(data, filteredData, currentPage, paginationConfig', SetupSearch(eventListeners))
  /\ attached' = Attached(attached.input + SetupSearch(Registry(0, 0, 0)).input,
                          attached.action + SetupSearch(Registry(0, 0, 0)).action)
  /\ lastOp' = Op("init", <<>>, 0)
  /\ UNCHANGED scan
  /\ UNCHANGED <<options, data, filteredData, currentPage, inputValue, timer, destroyed,
                 burst, error, unhandledRejection>>

\* Variant of InitCatch: the load is started again after the failure.
InitCatchRetrying ==
  /\ phase = "rejected"
  /\ phase' = "fetching"
  /\ container' = ErrorBlock("Failed to load data", error.message)
  /\ unhandledRejection' = error
  /\ lastOp' = Op("initFailed", <<>>, 0)
  /\ UNCHANGED scan
  /\ UNCHANGED <<options, data, filteredData, currentPage, searchConfig, paginationConfig,
                 eventListeners, pagination, inputValue, timer, destroyed, attached, burst,
                 error>>

\* Variant of InitCatch: showError is left out.
InitCatchWithoutShowError ==
  /\ phase = "rejected"
  /\ phase' = "failed"
  /\ unhandledRejection' = error
  /\ lastOp' = Op("initFailed", <<>>, 0)
  /\ UNCHANGED scan
  /\ UNCHANGED <<options, data, filteredData, currentPage, searchConfig, paginationConfig,
                 eventListeners, container, pagination, inputValue, timer, destroyed,
                 attached, burst, error>>

\* _init() when _loadData() rejected: showError('Failed to load data',
\* error.message), then `throw error` rejects the promise _init() returned.
\* The constructor called `this._init()` and dropped that promise, so the
\* rejection has no handler.
InitCatch ==
  /\ phase = "rejected"
  /\ phase' = "failed"
  /\ container' = ErrorBlock("Failed to load data", error.message)
  /\ unhandledRejection' = error
  /\ lastOp' = Op("initFailed", <<>>, 0)
  /\ UNCHANGED scan
  /\ UNCHANGED <<options, data, filteredData, currentPage, searchConfig, paginationConfig,
                 eventListeners, pagination, inputValue, timer, destroyed, attached, burst,
                 error>>

\* Variant of Search: `this.currentPage = 1` is left out.
SearchKeepingPage(query) ==
  /\ filteredData' = SearchResult(data, searchConfig.searchKey, query)
  /\ currentPage' = currentPage
  /\ Render(data, filteredData', currentPage', paginationConfig, eventListeners)
  /\ UNCHANGED <<options, data, searchConfig, paginationConfig, phase, destroyed,
                 attached, error, unhandledRejection>>

\* Variant of Search: this.data itself is filtered and shared with
\* filteredData.
SearchFilteringInPlace(query) ==
  /\ data' = SearchResult(data, searchConfig.searchKey, query)
  /\ filteredData' = data'
  /\ currentPage' = 1
  /\ Render(data', filteredData', currentPage', paginationConfig, eventListeners)
  /\ UNCHANGED <<options, searchConfig, paginationConfig, phase, destroyed,
                 attached, error, unhandledRejection>>

\* The body of search(query).
Search(query) ==
  /\ filteredData' = SearchResult(data, searchConfig.searchKey, query)
  /\ currentPage' = 1
  /\ Render(data, filteredData', currentPage', paginationConfig, eventListeners)
  /\ UNCHANGED <<options, data, searchConfig, paginationConfig, phase, destroyed,
                 attached, error, unhandledRejection>>

\* Variant of search: the call goes through the debounced handler.
searchDebounced(query) ==
  /\ inputValue' = query
  /\ timer' = TRUE
  /\ burst' = IF timer THEN Min(MaxBurst, burst + 1) ELSE 1
  /\ lastOp' = Op("search", query, 0)
  /\ UNCHANGED scan
  /\ UNCHANGED <<options, data, filteredData, currentPage, searchConfig, paginationConfig,
                 eventListeners, container, pagination, phase, destroyed, attached, error,
                 unhandledRejection>>

\* A programmatic call search(query).
search(query) ==
  /\ Search(query)
  /\ lastOp' = Op("search", query, 0)
  /\ UNCHANGED scan
  /\ UNCHANGED <<inputValue, timer, burst>>

\* Variant of GoToPage: the `pageNumber > totalPages` test is left out.
GoToPageNoUpperBound(pageNumber) ==
  IF pageNumber < 1
  THEN UNCHANGED <<currentPage, container, pagination, eventListeners>>
  ELSE /\ currentPage' = pageNumber
       /\ Render(data, filteredData, currentPage', paginationConfig, eventListeners)

\* Variant of GoToPage: the `pageNumber < 1` test is left out.
GoToPageNoLowerBound(pageNumber) ==
  IF pageNumber > TotalPages(filteredData, paginationConfig.itemsPerPage)
  THEN UNCHANGED <<currentPage, container, pagination, eventListeners>>
  ELSE /\ currentPage' = pageNumber
       /\ Render(data, filteredData, currentPage', paginationConfig, eventListeners)

\* Variant of GoToPage: the last page is refused (`>=` for `>`).
GoToPageStrictUpperBound(pageNumber) ==
  IF pageNumber < 1 \/ pageNumber >= TotalPages(filteredData, paginationConfig.itemsPerPage)
  THEN UNCHANGED <<currentPage, container, pagination, eventListeners>>
  ELSE /\ currentPage' = pageNumber
       /\ Render(data, filteredData, currentPage', paginationConfig, eventListeners)

\* Variant of GoToPage: `this.render()` is left out.
GoToPageWithoutRender(pageNumber) ==
  IF pageNumber < 1 \/ pageNumber > TotalPages(filteredData, paginationConfig.itemsPerPage)
  THEN UNCHANGED <<currentPage, container, pagination, eventListeners>>
  ELSE /\ currentPage' = pageNumber
       /\ UNCHANGED <<container, pagination, eventListeners>>

\* The body of goToPage(pageNumber).
GoToPage(pageNumber) ==
  LET totalPages == TotalPages(filteredData, paginationConfig.itemsPerPage)
  IN IF pageNumber < 1 \/ pageNumber > totalPages
     THEN UNCHANGED <<currentPage, container, pagination, eventListeners>>
     ELSE /\ currentPage' = pageNumber
          /\ Render(data, filteredData, currentPage', paginationConfig, eventListeners)

\* A programmatic call goToPage(pageNumber).
goToPage(pageNumber) ==
  /\ GoToPage(pageNumber)
  /\ lastOp' = Op("goToPage", <<>>, pageNumber)
  /\ UNCHANGED scan
  /\ UNCHANGED <<options, data, filteredData, searchConfig, paginationConfig, inputValue,
                 timer, phase, destroyed, attached, burst, error, unhandledRejection>>

\* A programmatic call render().
render ==
  /\ Render(data, filteredData, currentPage, paginationConfig, eventListeners)
  /\ lastOp' = Op("render", <<>>, 0)
  /\ UNCHANGED scan
  /\ UNCHANGED <<options, data, filteredData, currentPage, searchConfig, paginationConfig,
                 inputValue, timer, phase, destroyed, attached, burst, error,
                 unhandledRejection>>

\* render() called again right after a render(), nothing in between.
renderAgain ==
  /\ lastOp.name \in {"render", "renderAgain"}
  /\ Render(data, filteredData, currentPage, paginationConfig, eventListeners)
  /\ lastOp' = Op("renderAgain", <<>>, 0)
  /\ UNCHANGED scan
  /\ UNCHANGED <<options, data, filteredData, currentPage, searchConfig, paginationConfig,
                 inputValue, timer, phase, destroyed, attached, burst, error,
                 unhandledRejection>>

\* Variant of InputEvent: the handler is not debounced, every event searches.
InputEventUndebounced(value) ==
  /\ attached.input > 0
  /\ inputValue' = value
  /\ Search(value)
  /\ lastOp' = Op("input", value, 0)
  /\ UNCHANGED scan
  /\ UNCHANGED <<timer, burst>>

\* An input event on the wired search input: the debounced handler restarts
\* its timeout (clearTimeout, setTimeout).
InputEvent(value) ==
  /\ attached.input > 0
  /\ inputValue' = value
  /\ timer' = TRUE
  /\ burst' = IF timer THEN Min(MaxBurst, burst + 1) ELSE 1
  /\ lastOp' = Op("input", value, 0)
  /\ UNCHANGED scan
  /\ UNCHANGED <<options, data, filteredData, currentPage, searchConfig, paginationConfig,
                 eventListeners, container, pagination, phase, destroyed, attached, error,
                 unhandledRejection>>

\* The debounce timeout expires: search(e.target.value). lastOp.page records
\* how many input events the timeout had absorbed.
DebounceFire ==
  /\ timer
  /\ timer' = FALSE
  /\ burst' = 0
  /\ Search(inputValue)
  /\ lastOp' = Op("debounced", inputValue, burst)
  /\ UNCHANGED scan
  /\ UNCHANGED inputValue

\* Variant of ActionClick: the click goes through the debounced handler.
ActionClickDebounced ==
  /\ attached.action > 0
  /\ timer' = TRUE
  /\ burst' = IF timer THEN Min(MaxBurst, burst + 1) ELSE 1
  /\ lastOp' = Op("action", inputValue, 0)
  /\ UNCHANGED scan
  /\ UNCHANGED <<options, data, filteredData, currentPage, searchConfig, paginationConfig,
                 eventListeners, container, pagination, inputValue, phase, destroyed,
                 attached, error, unhandledRejection>>

\* A click on the search-action control: search(inputElement.value) at once.
ActionClick ==
  /\ attached.action > 0
  /\ Search(inputValue)
  /\ lastOp' = Op("action", inputValue, 0)
  /\ UNCHANGED scan
  /\ UNCHANGED <<inputValue, timer, burst>>

\* The buttons of the strip on display: Previous (page current-1, disabled on
\* page 1), one per page, Next (page current+1, disabled on the last page).
\* A disabled button dispatches no click.
ClickablePages(controls) ==
  IF controls.total = 0 THEN {}
  ELSE (1..controls.total)
         \cup (IF controls.current = 1 THEN {} ELSE {controls.current - 1})
         \cup (IF controls.current = controls.total THEN {} ELSE {controls.current + 1})

\* A click on a pagination button: `if (page >= 1 && page <= totalPages)
\* this.goToPage(page)` with the totalPages of the render that made the button.
PaginationClick(page) ==
  /\ page \in ClickablePages(pagination)
  /\ IF page >= 1 /\ page <= pagination.total
     THEN GoToPage(page)
     ELSE UNCHANGED <<currentPage, container, pagination, eventListeners>>
  /\ lastOp' = Op("click", <<>>, page)
  /\ UNCHANGED scan
  /\ UNCHANGED <<options, data, filteredData, searchConfig, paginationConfig, inputValue,
                 timer, phase, destroyed, attached, burst, error, unhandledRejection>>

\* Variant of ButtonClick: Next asks for the page after the next.
ButtonClickNextSkipping(i) ==
  /\ i \in 1..Len(StripButtons(pagination))
  /\ LET button == StripButtons(pagination)[i]
         page == IF button.label = "Next" THEN button.page + 1 ELSE button.page
     IN /\ IF ~button.disabled /\ page >= 1 /\ page <= pagination.total
           THEN GoToPage(page)
           ELSE UNCHANGED <<currentPage, container, pagination, eventListeners>>
        /\ lastOp' = Op("button", <<button.label>>, button.page)
  /\ UNCHANGED scan
  /\ UNCHANGED <<options, data, filteredData, searchConfig, paginationConfig, inputValue,
                 timer, phase, destroyed, attached, burst, error, unhandledRejection>>

\* The user activates the i-th button of the strip on display. A disabled
\* button dispatches no click; the handler of any other reads its data-page
\* and calls goToPage(page) when 1 <= page <= totalPages (the totalPages of
\* the render that made the button).
ButtonClick(i) ==
  /\ i \in 1..Len(StripButtons(pagination))
  /\ LET button == StripButtons(pagination)[i]
     IN /\ IF ~button.disabled /\ button.page >= 1 /\ button.page <= pagination.total
           THEN GoToPage(button.page)
           ELSE UNCHANGED <<currentPage, container, pagination, eventListeners>>
        /\ lastOp' = Op("button", <<button.label>>, button.page)
  /\ UNCHANGED scan
  /\ UNCHANGED <<options, data, filteredData, searchConfig, paginationConfig, inputValue,
                 timer, phase, destroyed, attached, burst, error, unhandledRejection>>

\* showLoading(): the items region is replaced by the loading indicator.
showLoading ==
  /\ container' = LoadingIndicator
  /\ lastOp' = Op("showLoading", <<>>, 0)
  /\ UNCHANGED scan
  /\ UNCHANGED <<options, data, filteredData, currentPage, searchConfig, paginationConfig,
                 eventListeners, pagination, inputValue, timer, phase, destroyed, attached,
                 burst, error, unhandledRejection>>

\* Variant of hideLoading: the items region is emptied whatever it holds.
hideLoadingClearing ==
  /\ container' = Blank
  /\ lastOp' = Op("hideLoading", <<>>, 0)
  /\ UNCHANGED scan
  /\ UNCHANGED <<options, data, filteredData, currentPage, searchConfig, paginationConfig,
                 eventListeners, pagination, inputValue, timer, phase, destroyed, attached,
                 burst, error, unhandledRejection>>

\* hideLoading(): removes the loading indicator if the region holds one.
hideLoading ==
  /\ container' = IF container.kind = "loading" THEN Blank ELSE container
  /\ lastOp' = Op("hideLoading", <<>>, 0)
  /\ UNCHANGED scan
  /\ UNCHANGED <<options, data, filteredData, currentPage, searchConfig, paginationConfig,
                 eventListeners, pagination, inputValue, timer, phase, destroyed, attached,
                 burst, error, unhandledRejection>>

\* showError(message, details): the items region is replaced by an error block.
showError ==
  /\ container' = ErrorBlock("message", <<>>)
  /\ lastOp' = Op("showError", <<>>, 0)
  /\ UNCHANGED scan
  /\ UNCHANGED <<options, data, filteredData, currentPage, searchConfig, paginationConfig,
                 eventListeners, pagination, inputValue, timer, phase, destroyed, attached,
                 burst, error, unhandledRejection>>

\* Variant of destroy: the registry is emptied without removeEventListener.
destroyWithoutDetaching ==
  /\ attached' = attached
  /\ container' = Blank
  /\ pagination' = IF paginationConfig.containerElement THEN NoControls ELSE pagination
  /\ data' = <<>>
  /\ filteredData' = <<>>
  /\ eventListeners' = Registry(0, 0, 0)
  /\ destroyed' = TRUE
  /\ lastOp' = Op("destroy", <<>>, 0)
  /\ UNCHANGED scan
  /\ UNCHANGED <<options, currentPage, searchConfig, paginationConfig, inputValue, timer,
                 phase, burst, error, unhandledRejection>>

\* destroy(): removeEventListener for every registry entry, both regions
\* cleared, data, filteredData and the registry emptied. currentPage and a
\* pending timeout are left alone.
destroy ==
  /\ attached' = Attached(Max(0, attached.input - eventListeners.input),
                          Max(0, attached.action - eventListeners.action))
  /\ container' = Blank
  /\ pagination' = IF paginationConfig.containerElement THEN NoControls ELSE pagination
  /\ data' = <<>>
  /\ filteredData' = <<>>
  /\ eventListeners' = Registry(0, 0, 0)
  /\ destroyed' = TRUE
  /\ lastOp' = Op("destroy", <<>>, 0)
  /\ UNCHANGED scan
  /\ UNCHANGED <<options, currentPage, searchConfig, paginationConfig, inputValue, timer,
                 phase, burst, error, unhandledRejection>>

\* ----------------------------------------------------------- specifications
\* Load completion, search, goToPage, render, input events and pagination
\* clicks: the operations of a live instance.
NextCore ==
  \/ \E payload \in Datasets : FetchOk(payload)
  \/ \E thrown \in FetchErrors : FetchFail(thrown)
  \/ InitContinue
  \/ InitCatch
  \/ \E q \in Queries : search(q)
  \/ \E n \in PageArgs : goToPage(n)
  \/ render
  \/ \E q \in TypedValues : InputEvent(q)
  \/ DebounceFire
  \/ ActionClick
  \/ \E n \in PageArgs : PaginationClick(n)

\* The same with teardown.
NextLifecycle ==
  \/ NextCore
  \/ destroy

\* Every public operation and every event.
Next ==
  \/ NextLifecycle
  \/ showLoading
  \/ hideLoading
  \/ showError

Spec == Init /\ [][Next]_vars

SpecCore == Init /\ [][NextCore]_vars

SpecLifecycle == Init /\ [][NextLifecycle]_vars

\* Larger datasets under pagination only: Records numbered 1..n given as a
\* literal array, itemsPerPage from 1 to MaxBigPerPage, a pagination mount
\* point, navigation by goToPage, render and the buttons.
NumberedData(n) == [i \in 1..n |-> Item(Num(i), Undefined)]
PagingOptions ==
  { Options(FALSE, Source("array", "records", NumberedData(n)), SearchAbsent,
            PaginationObject("absent", PaginationSelector, k), FALSE, FALSE) :
      n \in 0..MaxBigData, k \in 1..MaxBigPerPage }
  \cup
  { Options(FALSE, Source("array", "records", NumberedData(n)), SearchAbsent,
            PaginationBool(TRUE), FALSE, FALSE) :
      n \in 0..MaxBigData }
BigPageArgs == 0..(MaxBigData + 1)

InitPaging == \E o \in PagingOptions : InitWith(o)

NextPaging ==
  \/ InitContinue
  \/ \E n \in BigPageArgs : goToPage(n)
  \/ render
  \/ \E n \in BigPageArgs : PaginationClick(n)
  \/ \E i \in 1..(MaxBigData + 2) : ButtonClick(i)

SpecPaging == InitPaging /\ [][NextPaging]_vars

\* Instances with a wired search input (programmatic selector or declarative
\* input element) loading from a resource identifier, without pagination or
\* with one Record per page. The timeout set by the debounced handler expires
\* once it is left alone: DebounceFire is weakly fair.
InputOptions ==
  { o \in ConstructorOptions :
      /\ o.declarative \/ o.search.selector # NoSelector
      /\ o.data.kind = "url"
      /\ o.pagination \in {PaginationAbsent, PaginationObject("true", PaginationSelector, 1),
                            PaginationObject("absent", PaginationSelector, 1)} }

InitInput == \E o \in InputOptions : InitWith(o)

NextInput ==
  \/ \E payload \in Datasets : FetchOk(payload)
  \/ InitContinue
  \/ \E q \in TypedValues : search(q)
  \/ \E q \in TypedValues : InputEvent(q)
  \/ DebounceFire
  \/ ActionClick

SpecInput == InitInput /\ [][NextInput]_vars /\ WF_vars(DebounceFire)

\* ------------------------------------------------ constructor validation
\* The options with the two other required fields. container: "missing"
\* (falsy), "selector" (a string that resolves), "notFound" (a string that
\* resolves to nothing), "other" (neither string nor Element); itemTemplate:
\* "missing" (falsy) or "function". A missing data is the source kind
\* "missing" (undefined, null, 0 or '').
WithRequired(o, containerOption, templateOption) ==
  [declarative |-> o.declarative, data |-> o.data, search |-> o.search,
   pagination |-> o.pagination, inputElement |-> o.inputElement,
   actionElement |-> o.actionElement, container |-> containerOption,
   itemTemplate |-> templateOption]
MissingSource == Source("missing", "records", <<>>)

\* The Error the constructor throws before it stores anything, NoError when
\* the options pass: the three required fields in the order of the tests,
\* then the resolution of the container.
ConfigError(o) ==
  CASE o.container = "missing" -> Error(<<"SWI: container selector is required">>)
    [] o.data.kind = "missing" -> Error(<<"SWI: data source is required">>)
    [] o.itemTemplate = "missing" -> Error(<<"SWI: itemTemplate function is required">>)
    [] o.container = "notFound" -> Error(<<"SWI: container element not found: ", "#list">>)
    [] o.container = "other" ->
         Error(<<"SWI: container must be a selector string or DOM element">>)
    [] OTHER -> NoError

\* Variant of Aborted: the options are validated after _init() was started.
AbortedAfterInit(o) ==
  /\ options = o
  /\ data = <<>> /\ filteredData = <<>> /\ currentPage = 1
  /\ searchConfig = _parseSearchConfig(o.search)
  /\ paginationConfig = _parsePaginationConfig(o.pagination)
  /\ eventListeners = Registry(0, 0, 0)
  /\ container = LoadingIndicator
  /\ pagination = NoControls
  /\ inputValue = <<>> /\ timer = FALSE
  /\ phase = "aborted"
  /\ destroyed = FALSE
  /\ lastOp = Op("new", <<>>, 0)
  /\ scan = NoScan
  /\ attached = Attached(0, 0)
  /\ burst = 0
  /\ error = ConfigError(o)
  /\ unhandledRejection = NoError

\* The constructor threw: `new` gave no instance. The thrown Error is kept
\* in `error`; nothing was stored, shown, started or registered (the
\* instance fields hold what an instance without configuration would).
Aborted(o) ==
  /\ options = o
  /\ data = <<>> /\ filteredData = <<>> /\ currentPage = 1
  /\ searchConfig = _parseSearchConfig(SearchAbsent)
  /\ paginationConfig = _parsePaginationConfig(PaginationAbsent)
  /\ eventListeners = Registry(0, 0, 0)
  /\ container = Blank
  /\ pagination = NoControls
  /\ inputValue = <<>> /\ timer = FALSE
  /\ phase = "aborted"
  /\ destroyed = FALSE
  /\ lastOp = Op("new", <<>>, 0)
  /\ scan = NoScan
  /\ attached = Attached(0, 0)
  /\ burst = 0
  /\ error = ConfigError(o)
  /\ unhandledRejection = NoError

\* new SenangWebsIndex(options), validation included.
Construct(o) == IF ConfigError(o) # NoError THEN Aborted(o) ELSE InitWith(o)

\* container.getAttribute('data-swi-search-key') || 'name': the attribute
\* text is passed on as one key.
SearchKeyAttribute(attribute) ==
  RawKey("string", <<IF attribute = "" THEN "name" ELSE attribute>>)

\* The raw options the normalizer is given: absent, both booleans, and
\* objects with enabled absent, true and false; itemsPerPage omitted, zero,
\* negative and positive; searchKey omitted and given.
RawPaginationOptions ==
  { PaginationAbsent, PaginationBool(FALSE), PaginationBool(TRUE) }
  \cup { PaginationObjectDefault(e, PaginationSelector) : e \in {"absent", "true", "false"} }
  \cup { PaginationObject(e, PaginationSelector, n) :
            e \in {"absent", "true", "false"}, n \in {0 - 1, 0, 1, 2} }
RawSearchOptions ==
  { SearchAbsent, SearchBool(FALSE), SearchBool(TRUE) }
  \cup { SearchObject(e, NoSelector, k) :
            e \in {"absent", "true", "false"},
            k \in {NoKey, RawKey("array", <<"name", "category">>)} }

ConfigSources ==
  { Source("array", "records", d) : d \in {t \in Datasets : Len(t) = MaxData} }
  \cup {UrlSource}

\* Every raw search option with one pagination option and every raw
\* pagination option with one search option, with the required fields
\* present or not; declarative instances by their search-key attribute.
ConfigOptions ==
  { WithRequired(Options(FALSE, src, s, p, FALSE, FALSE), "selector", "function") :
      src \in ConfigSources, s \in RawSearchOptions,
      p \in {PaginationObject("absent", PaginationSelector, 1)} }
  \cup
  { WithRequired(Options(FALSE, src, s, p, FALSE, FALSE), "selector", "function") :
      src \in ConfigSources, p \in RawPaginationOptions,
      s \in {SearchObject("absent", NoSelector, RawKey("string", <<"category">>))} }
  \cup
  { WithRequired(Options(FALSE, src, SearchAbsent, PaginationAbsent, FALSE, FALSE), c, t) :
      src \in {MissingSource, UrlSource, Source("array", "records", <<>>)},
      c \in {"missing", "selector", "notFound", "other"},
      t \in {"missing", "function"} }
  \cup
  { WithRequired(Options(TRUE, UrlSource,
                         SearchObject("true", NoSelector, SearchKeyAttribute(a)),
                         PaginationObject("true", PaginationSelector, 2), TRUE, FALSE),
                 "selector", "function") :
      a \in {"", "category", "name, category"} }

InitConfig == \E o \in ConfigOptions : Construct(o)

\* No instance, no operation: the steps of an instance that was constructed.
NextConfig ==
  /\ phase # "aborted"
  /\ \/ \E payload \in Datasets : FetchOk(payload)
     \/ InitContinue
     \/ \E q \in TypedValues : search(q)
     \/ \E n \in PageArgs : goToPage(n)
     \/ \E q \in TypedValues : InputEvent(q)
     \/ DebounceFire

SpecConfig == InitConfig /\ [][NextConfig]_vars

\* ------------------------------------------------------- display states
\* Literal datasets with and without pagination (one Record per page), the
\* display operations called by the program at any time.
DisplayOptions ==
  { Options(FALSE, src, SearchObject("absent", NoSelector, RawKey("string", <<"name">>)),
            p, FALSE, FALSE) :
      src \in ArraySources,
      p \in {PaginationAbsent, PaginationObject("absent", PaginationSelector, 1)} }

InitDisplay == \E o \in DisplayOptions : InitWith(o)

NextDisplay ==
  \/ InitContinue
  \/ \E q \in TypedValues : search(q)
  \/ \E n \in PageArgs : goToPage(n)
  \/ render
  \/ renderAgain
  \/ showLoading
  \/ hideLoading
  \/ showError

SpecDisplay == InitDisplay /\ [][NextDisplay]_vars

\* ------------------------------------------------------ declarative scan
\* SWIDeclarativeHandler.init(): document.querySelectorAll('[data-swi-id]').
StartScan(containers) ==
  /\ scan = NoScan
  /\ containers # <<>>
  /\ scan' = [scan EXCEPT !.containers = containers, !.position = 0, !.scans = 1]
  /\ UNCHANGED instanceVars

\* SWIDeclarativeHandler.init() called again on the same document (the
\* automatic call on DOMContentLoaded, then a call by the page): the same
\* elements are visited from the first.
Rescan ==
  /\ scan.containers # <<>>
  /\ scan.position = Len(scan.containers)
  /\ scan.scans < MaxScans
  /\ scan' = [scan EXCEPT !.position = 0, !.scans = @ + 1]
  /\ UNCHANGED instanceVars

\* SWIDeclarativeHandler.destroyAll(): destroy() on every value of the Map,
\* then instances.clear().
destroyAll ==
  /\ scan.containers # <<>>
  /\ scan.position = Len(scan.containers)
  /\ scan' = [scan EXCEPT
                !.destroyed = @ \cup ({scan.instances[id] : id \in RegistryIds} \ {0}),
                !.instances = [id \in RegistryIds |-> 0]]
  /\ UNCHANGED instanceVars

\* SWIDeclarativeHandler.getInstance(id): the value of the Map (0: undefined).
getInstance(id) == scan.instances[id]

\* Variant of ScanSkip: a candidate that yields no instance ends the scan.
ScanSkipEndingScan ==
  /\ scan.position < Len(scan.containers)
  /\ ReturnsNull(scan.containers[scan.position + 1])
  /\ scan' = [scan EXCEPT !.position = Len(scan.containers)]
  /\ UNCHANGED instanceVars

\* One turn of forEach on a candidate createInstance() gives null for: a
\* warning, nothing created, nothing set in the Map.
ScanSkip ==
  /\ scan.position < Len(scan.containers)
  /\ ReturnsNull(scan.containers[scan.position + 1])
  /\ scan' = [scan EXCEPT !.position = scan.position + 1]
  /\ UNCHANGED instanceVars

\* One turn of forEach on any other candidate: new SWIDeclarativeInstance,
\* then instances.set(id, instance).
ScanCreate ==
  /\ scan.position < Len(scan.containers)
  /\ ~ReturnsNull(scan.containers[scan.position + 1])
  /\ scan' = [scan EXCEPT
                !.position = scan.position + 1,
                !.created = Append(scan.created, scan.position + 1),
                !.instances[scan.containers[scan.position + 1].id] =
                   Len(scan.created) + 1]
  /\ UNCHANGED instanceVars

CandidateLists == SeqsUpTo(Candidates, MaxCandidates)

\* One instance as the scan creates them, observed while the scan runs.
InitScan ==
  InitWith(Options(TRUE, UrlSource,
                   SearchObject("true", NoSelector, RawKey("string", <<"name">>)),
                   PaginationObject("true", PaginationSelector, 1), TRUE, FALSE))

NextScan ==
  \/ \E containers \in CandidateLists : StartScan(containers)
  \/ ScanSkip
  \/ ScanCreate

\* Scans, repeated scans and bulk destroy.
NextRegistry ==
  \/ NextScan
  \/ Rescan
  \/ destroyAll

SpecRegistry == InitScan /\ [][NextRegistry]_vars

\* forEach runs to the end of the NodeList once init() is called.
SpecScan == InitScan /\ [][NextScan]_vars /\ WF_vars(ScanSkip) /\ WF_vars(ScanCreate)

\* The load of every kind of source: literal arrays of Records, of scalars
\* and with a nested array first, a literal that is neither array nor string,
\* and a resource identifier (programmatic and declarative).
LoadOptions ==
  { Options(FALSE, src, SearchObject("absent", NoSelector, RawKey("string", <<"name">>)),
            p, FALSE, FALSE) :
      src \in LiteralSources \cup NestedSources \cup {UrlSource},
      p \in {PaginationAbsent, PaginationObject("absent", PaginationSelector, 1)} }
  \cup DeclarativeOptions

InitLoad == \E o \in LoadOptions : InitWith(o)

\* The JSON bodies an ok response can carry: an array of Records, an array
\* of scalars, an array with a nested array first, something not an array.
ResponseBodies ==
  ArraySources \cup NestedSources
  \cup {Source("array", "scalars", <<>>), Source("other", "records", <<>>)}

\* The fetch settles one way or the other.
FetchSettles ==
  \/ \E body \in ResponseBodies : FetchBody(body)
  \/ \E thrown \in FetchErrors : FetchFail(thrown)

NextLoad ==
  \/ FetchSettles
  \/ InitContinue
  \/ InitCatch
  \/ \E q \in TypedValues : search(q)
  \/ \E n \in PageArgs : goToPage(n)
  \/ render

\* The fetch completes, and the continuation of _init() after its await is
\* run by the event loop.
SpecLoad ==
  /\ InitLoad /\ [][NextLoad]_vars
  /\ WF_vars(FetchSettles) /\ WF_vars(InitContinue) /\ WF_vars(InitCatch)

\* ------------------------------------------------------------------- claims
\* Names of the operations that run the body of search().
SearchOps == {"search", "debounced", "action"}
\* A query that is empty or holds nothing but blanks.
OnlyWhitespace(q) == \A i \in 1..Len(q) : q[i] = " "
\* totalPages as the specification words it: ceil(|FilteredView| /
\* itemsPerPage), floored at 1 when FilteredView is empty.
FlooredTotalPages ==
  IF filteredData = <<>> THEN 1
  ELSE CeilDiv(Len(filteredData), paginationConfig.itemsPerPage)
\* The current page slice.
CurrentSlice == _getPaginatedData(filteredData, currentPage, paginationConfig)

\* C1: on a live instance, in every state reachable by load completion,
\* search, goToPage, render, input events and pagination clicks,
\* 1 <= currentPage <= max(1, ceil(|FilteredView| / itemsPerPage)).
C1_CurrentPageInRange ==
  ~destroyed =>
    /\ 1 <= currentPage
    /\ currentPage <= Max(1, CeilDiv(Len(filteredData), paginationConfig.itemsPerPage))

\* C1 witness: goToPage has moved a live, initialized instance to its last
\* page, which is not page 1.
C1_Witness ==
  /\ ~destroyed /\ phase = "ready"
  /\ lastOp.name = "goToPage" /\ lastOp.page = currentPage
  /\ currentPage >= 2
  /\ currentPage = CeilDiv(Len(filteredData), paginationConfig.itemsPerPage)

\* C2: once the instance is initialized, in every state reached by search,
\* goToPage, render, debounced input and pagination clicks the items region
\* shows exactly the Records of the current page slice, in slice order, or the
\* empty-state block when the slice is empty.
C2_ViewShowsCurrentSlice ==
  phase = "ready" =>
    IF CurrentSlice = <<>>
    THEN container.kind = "empty-state" /\ container.items = <<>>
    ELSE container.kind = "items" /\ container.items = CurrentSlice

\* C2 witness: a pagination click has moved to page 2 of a filtered view of
\* at least two Records and the items region shows that page.
C2_Witness ==
  /\ phase = "ready" /\ lastOp.name = "click"
  /\ currentPage = 2 /\ Len(filteredData) >= 2
  /\ container.kind = "items" /\ container.items = CurrentSlice
  /\ container.items # filteredData

\* C3: after search(q) with q empty or all whitespace, from any prior state,
\* FilteredView equals Dataset (same Records, same order).
C3_BlankQueryRestoresDataset ==
  (lastOp.name \in SearchOps /\ OnlyWhitespace(lastOp.query)) => filteredData = data

\* C3 witness: search(" ") has run on a Dataset of two different Records.
C3_Witness ==
  /\ lastOp = Op("search", <<" ">>, 0)
  /\ Len(data) = 2 /\ data[1] # data[2]
  /\ filteredData = data

\* The string form of a string or number field value.
StringForm(v) == IF v.kind = "number" THEN NumberToString(v.n) ELSE v.s
\* The configured search keys: none when no searchKey is configured.
ConfiguredKeys ==
  IF searchConfig.searchKey.kind = "undefined" THEN <<>> ELSE searchConfig.searchKey.keys
\* A field value matches q as the specification words it: present, non-null
\* (a string or a number, the number 0 included), and its lower-cased string
\* form contains lower-cased q.
ClaimedValueMatches(v, q) ==
  /\ v.kind \in {"string", "number"}
  /\ includes(toLowerCase(StringForm(v)), toLowerCase(q))
ClaimedResult(items, keys, q) ==
  LET Keep(r) == \E k \in 1..Len(keys) : ClaimedValueMatches(Field(r, keys[k]), q)
  IN SelectSeq(items, Keep)
Range(seq) == {seq[i] : i \in 1..Len(seq)}

\* C4: after search(q) with q neither empty nor all whitespace, FilteredView
\* holds exactly the Records of Dataset for which some configured search key
\* has a present, non-null value (string or number, 0 included) whose
\* lower-cased string form contains lower-cased q.
C4_SearchKeepsExactlyTheMatches ==
  (lastOp.name \in SearchOps /\ ~OnlyWhitespace(lastOp.query)) =>
    filteredData = ClaimedResult(data, ConfiguredKeys, lastOp.query)

\* C5: with a single search key k, after search(q) every Record whose field k
\* holds a string or number value equal to q is present in FilteredView.
C5_ExactValueQueryKeepsRecord ==
  (lastOp.name \in SearchOps /\ searchConfig.searchKey.kind = "string") =>
    \A i \in 1..Len(data) :
      LET v == Field(data[i], searchConfig.searchKey.keys[1])
      IN (v.kind \in {"string", "number"} /\ lastOp.query = StringForm(v))
           => data[i] \in Range(filteredData)

\* C6 as claimed: every step that assigns a new FilteredView (the initial
\* load, every search, the clearing done by destroy) leaves currentPage = 1.
C6_EveryAssignmentResetsPage ==
  lastOp.name \in ({"new", "load", "destroy"} \cup SearchOps) => currentPage = 1

\* C6 as amended: the initial load and every search leave currentPage = 1
\* (destroy clears FilteredView and leaves currentPage as it was).
C6_LoadAndSearchResetPage ==
  lastOp.name \in ({"new", "load"} \cup SearchOps) => currentPage = 1

\* C6 witness: a debounced search has run on a loaded Dataset with more than
\* one page and currentPage is 1.
C6_Witness ==
  /\ lastOp.name = "debounced" /\ currentPage = 1
  /\ paginationConfig.enabled
  /\ TotalPages(filteredData, paginationConfig.itemsPerPage) >= 2

\* C7: goToPage(n) with n outside [1, totalPages] (totalPages floored at 1
\* when FilteredView is empty) leaves currentPage, FilteredView, Dataset, the
\* rendered items and the pagination controls unchanged.
C7_OutOfRangePageIsNoOp ==
  [][(lastOp'.name = "goToPage"
        /\ (lastOp'.page < 1 \/ lastOp'.page > FlooredTotalPages))
       => UNCHANGED <<currentPage, filteredData, data, container, pagination>>]_vars

\* C7 witness: goToPage(n) with n beyond the last of two or more pages was
\* called on an initialized instance showing items.
C7_Witness ==
  /\ lastOp.name = "goToPage" /\ lastOp.page > FlooredTotalPages
  /\ FlooredTotalPages >= 2
  /\ phase = "ready" /\ container.kind = "items"

\* C8 as claimed: goToPage(n) with 1 <= n <= totalPages, totalPages floored
\* at 1 when FilteredView is empty, sets currentPage to n and renders.
C8_InRangePageIsShown_Floored ==
  [][(lastOp'.name = "goToPage" /\ 1 <= lastOp'.page /\ lastOp'.page <= FlooredTotalPages)
       => /\ currentPage' = lastOp'.page
          /\ container' = RenderedItems(data, filteredData, lastOp'.page, paginationConfig)
          /\ pagination' = RenderedControls(pagination, filteredData, lastOp'.page,
                                            paginationConfig)]_vars

\* C8 as amended: goToPage(n) with 1 <= n <= ceil(|FilteredView| /
\* itemsPerPage), not floored, sets currentPage to n and renders; on an empty
\* FilteredView every n, 1 included, is out of range and nothing is rendered.
C8_InRangePageIsShown ==
  [][lastOp'.name = "goToPage"
       => /\ (1 <= lastOp'.page
                /\ lastOp'.page <= CeilDiv(Len(filteredData), paginationConfig.itemsPerPage))
              => /\ currentPage' = lastOp'.page
                 /\ container' =
                      RenderedItems(data, filteredData, lastOp'.page, paginationConfig)
                 /\ pagination' = RenderedControls(pagination, filteredData, lastOp'.page,
                                                   paginationConfig)
          /\ filteredData = <<>> => UNCHANGED <<currentPage, container, pagination>>]_vars

\* C8 witness: goToPage(3) has shown the third page, of 5 Records, of 25
\* Records paged by 10.
C8_Witness ==
  /\ lastOp = Op("goToPage", <<>>, 3) /\ currentPage = 3
  /\ Len(filteredData) = 25 /\ paginationConfig.itemsPerPage = 10
  /\ container.kind = "items" /\ Len(container.items) = 5
  /\ container.items[1] = filteredData[21]

\* The half-open slice [(currentPage-1)*itemsPerPage, min(currentPage *
\* itemsPerPage, |FilteredView|)) of FilteredView, positions counted from 0.
ClaimedSlice ==
  LET lo == (currentPage - 1) * paginationConfig.itemsPerPage
      hi == Min(currentPage * paginationConfig.itemsPerPage, Len(filteredData))
  IN [i \in 1..Max(0, hi - lo) |-> filteredData[lo + i]]

\* C9: with pagination enabled the current page slice is
\* FilteredView[(currentPage-1)*itemsPerPage ..
\*              min(currentPage*itemsPerPage, |FilteredView|)).
C9_SliceIsHalfOpenRange ==
  paginationConfig.enabled => CurrentSlice = ClaimedSlice

\* C10: with pagination disabled the current page slice is the entire
\* FilteredView for every currentPage, and that is what render shows.
C10_DisabledPaginationShowsAll ==
  ~paginationConfig.enabled =>
    /\ CurrentSlice = filteredData
    /\ (phase = "ready" /\ filteredData # <<>>) =>
         (container.kind = "items" /\ container.items = filteredData)

\* C10 witness: with pagination disabled goToPage(2) has set currentPage to 2
\* and the items region shows both Records of FilteredView.
C10_Witness ==
  /\ ~paginationConfig.enabled
  /\ lastOp = Op("goToPage", <<>>, 2) /\ currentPage = 2
  /\ Len(filteredData) = 2
  /\ container.kind = "items" /\ container.items = filteredData

\* s is a subsequence of t: t with some elements left out.
RECURSIVE IsSubsequence(_, _)
IsSubsequence(s, t) ==
  IF s = <<>> THEN TRUE
  ELSE IF t = <<>> THEN FALSE
  ELSE IF Head(s) = Head(t) THEN IsSubsequence(Tail(s), Tail(t))
  ELSE IsSubsequence(s, Tail(t))
\* Names of the operations that always end with render().
RenderOps == {"init", "render"} \cup SearchOps

\* C11: after the initial load no search (programmatic, debounced or by the
\* action control), goToPage, pagination click or render changes Dataset: its
\* Records and their order stay as loaded while FilteredView is replaced.
C11_DatasetIsNeverChanged ==
  [][lastOp'.name \in (SearchOps \cup {"goToPage", "click", "render"})
       => data' = data]_vars

\* C11 witness: a search on a Dataset of two Records has left FilteredView
\* with one of them and Dataset with both.
C11_Witness ==
  /\ lastOp.name = "search" /\ phase = "ready"
  /\ Len(data) = 2 /\ Len(filteredData) = 1
  /\ options.data.kind = "array" /\ data = options.data.payload

\* C12: in every reachable state, teardown included, FilteredView is a
\* subsequence of Dataset: its Records are Records of Dataset in the same
\* relative order.
C12_FilteredViewIsSubsequence == IsSubsequence(filteredData, data)

\* C12 witness: a search kept the second of two different Records.
C12_Witness ==
  /\ lastOp.name \in SearchOps
  /\ Len(data) = 2 /\ data[1] # data[2]
  /\ filteredData = <<data[2]>>

\* C13: on a wired search input, an input event executes no search and
\* leaves one timeout pending; the search by the timeout runs only with a
\* timeout pending, uses the value of the last input event, leaves no timeout
\* pending (so a run of events within the window executes one search), and a
\* pending timeout is always followed by that search.
C13_RunOfInputsExecutesOneSearch ==
  /\ [][/\ lastOp'.name = "input"
             => /\ timer' /\ inputValue' = lastOp'.query
                /\ UNCHANGED <<filteredData, currentPage, container, pagination>>
        /\ lastOp'.name = "debounced"
             => /\ timer /\ ~timer'
                /\ lastOp'.query = inputValue
                /\ filteredData' = SearchResult(data, searchConfig.searchKey, inputValue)
                /\ currentPage' = 1]_vars
  /\ (timer ~> ~timer)

\* C13 witness: a timeout that absorbed two or more input events has run one
\* search with the last value, which filtered a loaded Dataset.
C13_Witness ==
  /\ lastOp.name = "debounced" /\ lastOp.page >= 2
  /\ lastOp.query = inputValue /\ ~timer
  /\ phase = "ready" /\ Len(data) = 2
  /\ filteredData = SearchResult(data, searchConfig.searchKey, inputValue)
  /\ Len(filteredData) = 1

\* C14: a programmatic search(q) has updated FilteredView, currentPage and
\* both regions when it returns, and leaves a pending debounce timeout as it
\* was.
C14_ProgrammaticSearchIsImmediate ==
  [][lastOp'.name = "search"
       => /\ filteredData' = SearchResult(data, searchConfig.searchKey, lastOp'.query)
          /\ currentPage' = 1
          /\ container' = RenderedItems(data, filteredData', 1, paginationConfig)
          /\ pagination' = RenderedControls(pagination, filteredData', 1, paginationConfig)
          /\ timer' = timer]_vars

\* C14 witness: search(q) has filtered a Dataset of two Records down to one
\* while a debounce timeout for another value was pending.
C14_Witness ==
  /\ lastOp.name = "search" /\ timer /\ inputValue # lastOp.query
  /\ phase = "ready" /\ Len(data) = 2 /\ Len(filteredData) = 1
  /\ container.kind = "items"

\* C15: in a declarative instance, a click on the search-action control runs
\* search in that step with the value the input holds: FilteredView,
\* currentPage and both regions are updated by the click itself.
C15_ActionClickSearchesAtOnce ==
  [][lastOp'.name = "action"
       => /\ lastOp'.query = inputValue
          /\ filteredData' = SearchResult(data, searchConfig.searchKey, inputValue)
          /\ currentPage' = 1
          /\ container' = RenderedItems(data, filteredData', 1, paginationConfig)
          /\ pagination' = RenderedControls(pagination, filteredData', 1, paginationConfig)]_vars

\* C15 witness: the action control of a declarative instance was clicked
\* while the debounce timeout of the typed value was still pending, and the
\* view is already filtered by that value.
C15_Witness ==
  /\ lastOp.name = "action" /\ options.declarative /\ timer
  /\ lastOp.query = inputValue /\ ~IsBlankQuery(inputValue)
  /\ phase = "ready" /\ Len(data) = 2 /\ Len(filteredData) = 1
  /\ container.kind = "items"

\* C16: when destroy() returns on a fully initialized instance, no handler
\* is attached to the search input or the action control (each registered
\* one was removed), the registry is empty, and the items region and the
\* pagination region (with its buttons) are empty.
C16_DestroyDetachesAndClears ==
  (lastOp.name = "destroy" /\ phase = "ready") =>
    /\ attached = Attached(0, 0)
    /\ eventListeners = Registry(0, 0, 0)
    /\ container = Blank
    /\ pagination = NoControls

\* C16 witness: destroy() has returned on an initialized declarative instance
\* that had an input, an action control and a pagination mount point.
C16_Witness ==
  /\ lastOp.name = "destroy" /\ phase = "ready"
  /\ options.declarative /\ searchConfig.inputElement /\ searchConfig.actionElement
  /\ paginationConfig.containerElement
  /\ attached = Attached(0, 0)

\* C17: after destroy() no debounced search executes, and the items and
\* pagination regions destroy() emptied stay empty when the timeout that was
\* pending expires.
C17_DestroyCancelsPendingSearch ==
  (destroyed /\ lastOp.name \in {"destroy", "debounced"}) =>
    /\ lastOp.name = "destroy"
    /\ container = Blank
    /\ pagination = NoControls

\* C18: when destroy() was called while the remote load was in flight, the
\* completion of the fetch and of _init() attaches no handler, leaves Dataset
\* and FilteredView empty and leaves both regions empty.
C18_DestroyCancelsPendingLoad ==
  (destroyed /\ options.data.kind = "url" /\ lastOp.name \in {"load", "init"}) =>
    /\ data = <<>> /\ filteredData = <<>>
    /\ attached = Attached(0, 0)
    /\ eventListeners = Registry(0, 0, 0)
    /\ container = Blank
    /\ pagination = NoControls

\* C19: after every render() that found the current page slice empty, the
\* items region is the empty-state block, with the "no data" message when
\* Dataset is empty and the "no results" message when it is not, and the
\* pagination region holds no controls.
C19_EmptySliceShowsEmptyState ==
  (lastOp.name \in RenderOps /\ CurrentSlice = <<>>) =>
    /\ container = EmptyState(IF data = <<>> THEN NoDataMessage ELSE NoResultsMessage)
    /\ pagination = NoControls

\* C19 witness: on two Records paged one by one, a search that matched
\* nothing left the "no results" block and no pagination controls.
C19_Witness ==
  /\ lastOp.name \in SearchOps /\ phase = "ready"
  /\ Len(data) = 2 /\ filteredData = <<>>
  /\ paginationConfig.containerElement /\ paginationConfig.itemsPerPage = 1
  /\ container = EmptyState(NoResultsMessage)
  /\ pagination = NoControls

\* The Errors that carry the status code and text of a failed response.
HttpErrors == {HttpError(r) : r \in FailedResponses}

\* C20: when the fetch of a resource identifier reported a non-success
\* status, the load has failed with an Error carrying status code and text,
\* the error block shows it, the failure reached the calling code (the
\* rejection of the initialization was handled), Dataset and FilteredView are
\* empty and no handler is registered.
C20_FailedFetchIsReportedToCaller ==
  (options.data.kind = "url" /\ lastOp.name = "initFailed" /\ error \in HttpErrors) =>
    /\ container = ErrorBlock("Failed to load data", error.message)
    /\ unhandledRejection = NoError
    /\ data = <<>> /\ filteredData = <<>>
    /\ eventListeners = Registry(0, 0, 0)

\* C24: the source is read once: an instance whose load has ended (ready or
\* failed) never loads again, its Dataset changes no more (teardown aside),
\* and after a failed load Dataset and FilteredView are empty in every later
\* state, whatever search, goToPage, render, input or click follows.
C24_SourceIsReadOnce ==
  [][/\ phase \in {"ready", "failed"}
          => /\ phase' = phase
             /\ data' = data \/ lastOp'.name = "destroy"
     /\ phase' = "fetching" => phase = "fetching"
     /\ phase' = "failed" => (data' = <<>> /\ filteredData' = <<>>)]_vars

\* C24 witness: after a failed remote load, search(q) with a non-blank q has
\* run and Dataset and FilteredView are still empty.
C24_Witness ==
  /\ phase = "failed" /\ options.data.kind = "url"
  /\ lastOp.name = "search" /\ ~IsBlankQuery(lastOp.query)
  /\ data = <<>> /\ filteredData = <<>>

\* C27: in every state the PaginationSettings in use have itemsPerPage >= 1.
C27_ItemsPerPageIsPositive == paginationConfig.itemsPerPage >= 1

\* The strip the specification words: Previous disabled exactly on page 1,
\* a numbered control per page 1..totalPages with exactly the current one
\* active, Next disabled exactly on the last page.
ClaimedStrip(page, totalPages) ==
  <<Button("Previous", page - 1, page = 1, FALSE)>>
  \o [i \in 1..totalPages |-> Button("page", i, FALSE, i = page)]
  \o <<Button("Next", page + 1, page = totalPages, FALSE)>>
\* What the pagination region holds is what the claim says for the current
\* FilteredView and page.
StripIsAsClaimed ==
  LET totalPages == TotalPages(filteredData, paginationConfig.itemsPerPage)
  IN IF totalPages > 1
     THEN StripButtons(pagination) = ClaimedStrip(currentPage, totalPages)
     ELSE StripButtons(pagination) = <<>>

\* C30 as claimed: after every render with pagination enabled, in the
\* boolean or the object form, the pagination region holds the claimed strip
\* when totalPages > 1 and nothing when totalPages <= 1.
C30_StripShownWheneverEnabled ==
  (phase = "ready" /\ paginationConfig.enabled) => StripIsAsClaimed

\* C30 as amended: the same for pagination enabled with a pagination mount
\* point (object form with a selector, resolved by the initialization);
\* without a mount point no control is rendered anywhere.
C30_StripShownAtMountPoint ==
  (phase = "ready" /\ paginationConfig.enabled) =>
    IF paginationConfig.containerElement THEN StripIsAsClaimed
    ELSE StripButtons(pagination) = <<>>

\* C30 witness: page 2 of 3 is shown: Previous and Next enabled, control 2
\* active.
C30_Witness ==
  /\ phase = "ready" /\ paginationConfig.enabled /\ paginationConfig.containerElement
  /\ currentPage = 2
  /\ TotalPages(filteredData, paginationConfig.itemsPerPage) = 3
  /\ Len(StripButtons(pagination)) = 5
  /\ ~StripButtons(pagination)[1].disabled /\ ~StripButtons(pagination)[5].disabled
  /\ StripButtons(pagination)[3].active /\ ~StripButtons(pagination)[2].active

\* The load ended with a shape error and the error block shows it.
FailedWithShapeError(shapeError) ==
  /\ phase = "failed" /\ error = shapeError
  /\ container = ErrorBlock("Failed to load data", shapeError.message)

\* C21: a source whose payload is not an array fails the load with the
\* "data must be an array" error and the error block is shown: a fetched
\* body that is not an array, and a literal that is neither array nor
\* string. Stated of the state _init() leaves.
C21_NonArrayPayloadFails ==
  /\ (lastOp.name = "initFailed" /\ error = ArrayError) => FailedWithShapeError(ArrayError)
  /\ (options.data.kind = "other" /\ lastOp.name \in {"init", "initFailed"})
       => FailedWithShapeError(ArrayError)

\* C22: a loaded sequence whose first element is not a Record never becomes
\* the Dataset or the FilteredView: the load fails with the "items must be
\* objects" error and both stay empty.
C22_NonRecordFirstElementFails ==
  /\ (data # <<>> => IsRecord(data[1]))
  /\ (filteredData # <<>> => IsRecord(filteredData[1]))
  /\ (options.data.kind = "array" /\ options.data.shape # "records"
        /\ lastOp.name \in {"init", "initFailed"})
       => FailedWithShapeError(ItemsError)

\* C23: the loading indicator of the construction is replaced once the
\* fetch has completed: _init() ends, with the rendered items or the empty
\* state after a successful load and with the error block after a failed
\* one; after a failed load the view surface is never blank and never the
\* loading indicator.
C23_LoadingIndicatorIsReplaced ==
  /\ [](lastOp.name = "init" => container.kind \in {"items", "empty-state"})
  /\ [](lastOp.name = "initFailed" => container.kind = "error")
  /\ [](phase = "failed" => container.kind \notin {"blank", "loading"})
  /\ (phase \in {"fetching", "loaded", "rejected"}) ~> (phase \in {"ready", "failed"})
  /\ (container.kind = "loading") ~> (container.kind # "loading")

\* C23 witness: a fetch failed, the error block replaced the loading
\* indicator, and a later search replaced that with the empty state.
C23_Witness ==
  /\ options.data.kind = "url" /\ phase = "failed" /\ error \in FetchErrors
  /\ lastOp.name = "search" /\ container.kind = "empty-state"

\* C25: a construction without container, data or itemTemplate throws a
\* configuration error at once: no load was started, no handler registered
\* and the view surface is as it was; and it is the only construction of
\* these that fails so.
C25_MissingRequiredOptionAborts ==
  LET missing == \/ options.container = "missing"
                 \/ options.data.kind = "missing"
                 \/ options.itemTemplate = "missing"
  IN /\ missing =>
          /\ phase = "aborted"
          /\ error \in { Error(<<"SWI: container selector is required">>),
                         Error(<<"SWI: data source is required">>),
                         Error(<<"SWI: itemTemplate function is required">>) }
          /\ container = Blank /\ pagination = NoControls
          /\ eventListeners = Registry(0, 0, 0) /\ attached = Attached(0, 0)
          /\ data = <<>> /\ ~timer /\ lastOp.name = "new"
     /\ (phase = "aborted") = (ConfigError(options) # NoError)

\* C25 witness: data and itemTemplate given, container missing.
C25_Witness ==
  /\ options.container = "missing" /\ options.data.kind = "url"
  /\ options.itemTemplate = "function"
  /\ phase = "aborted" /\ error = Error(<<"SWI: container selector is required">>)

\* C26: what the normalizer made of the raw options: absent gives disabled
\* with itemsPerPage 10 and no search key; a boolean gives enabled = that
\* boolean with the same defaults; an object is enabled unless its enabled
\* field is false, and has itemsPerPage 10 when it omits it. No input makes
\* the construction fail.
C26_NormalizerMapping ==
  phase # "aborted" =>
    LET p == options.pagination
        s == options.search
    IN /\ p.form = "absent" =>
            (~paginationConfig.enabled /\ paginationConfig.itemsPerPage = 10)
       /\ p.form = "boolean" =>
            (paginationConfig.enabled = p.bool /\ paginationConfig.itemsPerPage = 10)
       /\ p.form = "object" =>
            /\ paginationConfig.enabled = (p.enabled # "false")
            /\ ~p.hasPerPage => paginationConfig.itemsPerPage = 10
            /\ (p.hasPerPage /\ p.itemsPerPage >= 1)
                 => paginationConfig.itemsPerPage = p.itemsPerPage
       /\ s.form = "absent" => (~searchConfig.enabled /\ searchConfig.searchKey = NoKey)
       /\ s.form = "boolean" =>
            (searchConfig.enabled = s.bool /\ searchConfig.searchKey = NoKey)
       /\ s.form = "object" => searchConfig.enabled = (s.enabled # "false")
       /\ error = NoError

\* C26 witness: an object without enabled and without itemsPerPage became
\* enabled with itemsPerPage 10, and a page of results is shown.
C26_Witness ==
  /\ options.pagination = PaginationObjectDefault("absent", PaginationSelector)
  /\ paginationConfig.enabled /\ paginationConfig.itemsPerPage = 10
  /\ phase = "ready" /\ container.kind = "items"

\* C28: a declarative instance whose search-key attribute is
\* "name, category" searches the fields name and category: after a search
\* with a non-blank query every Record whose category matches is in
\* FilteredView.
C28_AttributeListIsSplit ==
  (/\ options.declarative
   /\ options.search.searchKey = SearchKeyAttribute("name, category")
   /\ lastOp.name \in SearchOps /\ ~IsBlankQuery(lastOp.query))
  => \A i \in 1..Len(data) :
        ValueMatches(Field(data[i], "category"), toLowerCase(trim(lastOp.query)))
          => \E j \in 1..Len(filteredData) : filteredData[j] = data[i]

\* The candidates visited so far that have an id, a source and a template,
\* in document order.
RECURSIVE GoodCandidatesUpTo(_)
GoodCandidatesUpTo(n) ==
  IF n = 0 THEN <<>>
  ELSE IF ReturnsNull(scan.containers[n]) THEN GoodCandidatesUpTo(n - 1)
  ELSE Append(GoodCandidatesUpTo(n - 1), n)

\* C29: at every point of a scan, the instances created are exactly those
\* of the visited candidates that have id, source and template, one each in
\* document order, whatever candidates without them came before, between or
\* after; each of them is registered under its id (the latest one, when two
\* share an id); a candidate missing id, source or template has no instance
\* and no entry; and the scan goes on to the last candidate.
C29_BadCandidatesAreSkipped ==
  /\ [](/\ scan.created = GoodCandidatesUpTo(scan.position)
        /\ \A k \in 1..Len(scan.created) :
              LET id == scan.containers[scan.created[k]].id
              IN /\ scan.instances[id] # 0
                 /\ scan.instances[id] >= k
                 /\ scan.containers[scan.created[scan.instances[id]]].id = id
        /\ \A id \in RegistryIds :
              scan.instances[id] # 0 =>
                /\ scan.instances[id] \in 1..Len(scan.created)
                /\ ~ReturnsNull(scan.containers[scan.created[scan.instances[id]]]))
  /\ [](scan.containers # <<>> => <>(scan.position = Len(scan.containers)))

\* C29 witness: a scan of three candidates has ended; the first had no
\* template, the second no source, the third had everything and is
\* registered.
C29_Witness ==
  /\ Len(scan.containers) = 3 /\ scan.position = 3
  /\ ~scan.containers[1].template /\ scan.containers[1].id # "" /\ scan.containers[1].source
  /\ ~scan.containers[2].source
  /\ ~ReturnsNull(scan.containers[3])
  /\ scan.created = <<3>> /\ scan.instances[scan.containers[3].id] = 1

\* The page has been rendered anew: the items of the current slice and the
\* strip with the current page marked.
Rerendered ==
  /\ container = ItemElements(CurrentSlice)
  /\ pagination = Controls(TotalPages(filteredData, paginationConfig.itemsPerPage),
                           currentPage)

\* C31: activating the numbered control i sets currentPage to i and renders
\* again; Previous on a page p > 1 sets it to p - 1, Next on a page
\* p < totalPages to p + 1; Previous on page 1 and Next on the last page
\* change nothing.
C31_ControlsNavigate ==
  [][lastOp'.name = "button" =>
       LET label == lastOp'.query[1]
           p == currentPage
           totalPages == TotalPages(filteredData, paginationConfig.itemsPerPage)
       IN /\ label = "page" => (currentPage' = lastOp'.page /\ Rerendered')
          /\ (label = "Previous" /\ p > 1) => (currentPage' = p - 1 /\ Rerendered')
          /\ (label = "Next" /\ p < totalPages) => (currentPage' = p + 1 /\ Rerendered')
          /\ ((label = "Previous" /\ p = 1) \/ (label = "Next" /\ p = totalPages))
               => UNCHANGED <<currentPage, container, pagination, data, filteredData,
                              eventListeners>>]_vars

\* C31 witness: Next was activated on page 2 of 3 and page 3 is shown, its
\* Next control disabled.
C31_Witness ==
  /\ lastOp = Op("button", <<"Next">>, 3) /\ currentPage = 3
  /\ pagination = Controls(3, 3) /\ StripButtons(pagination)[5].disabled
  /\ container.kind = "items"

\* The slices of the pages 1..n of FilteredView, one after the other.
RECURSIVE PagesConcatenated(_)
PagesConcatenated(n) ==
  IF n = 0 THEN <<>>
  ELSE PagesConcatenated(n - 1) \o _getPaginatedData(filteredData, n, paginationConfig)

\* C40: with pagination enabled and itemsPerPage >= 1 the slices of the
\* pages 1..totalPages, in page order, make up FilteredView exactly; every
\* page but the last holds itemsPerPage Records and no page in range is
\* empty.
C40_PagesPartitionFilteredView ==
  (paginationConfig.enabled /\ paginationConfig.itemsPerPage >= 1) =>
    LET totalPages == TotalPages(filteredData, paginationConfig.itemsPerPage)
        Page(n) == _getPaginatedData(filteredData, n, paginationConfig)
    IN /\ PagesConcatenated(totalPages) = filteredData
       /\ \A n \in 1..(totalPages - 1) : Len(Page(n)) = paginationConfig.itemsPerPage
       /\ \A n \in 1..totalPages : Page(n) # <<>>
       /\ (filteredData # <<>>) => totalPages >= 1

\* C40 witness: 25 Records paged by 10 are shown on their second page:
\* pages of 10, 10 and 5.
C40_Witness ==
  /\ paginationConfig.enabled /\ paginationConfig.itemsPerPage = 10
  /\ Len(filteredData) = 25 /\ currentPage = 2 /\ lastOp.name = "render"
  /\ Len(_getPaginatedData(filteredData, 3, paginationConfig)) = 5
  /\ container.items = SubSeq(filteredData, 11, 20)

\* C32: a render() that follows a render() with nothing in between shows
\* the same items and the same pagination controls as the first, and no
\* render() changes Dataset, FilteredView or currentPage.
C32_RenderIsIdempotent ==
  [][/\ lastOp'.name \in {"render", "renderAgain"}
          => UNCHANGED <<data, filteredData, currentPage>>
     /\ lastOp'.name = "renderAgain"
          => (container' = container /\ pagination' = pagination)]_vars

\* C32 witness: render() was called twice on the second page of a paged
\* dataset; the page and its controls are on display.
C32_Witness ==
  /\ lastOp.name = "renderAgain" /\ phase = "ready"
  /\ currentPage = 2 /\ container = ItemElements(<<filteredData[2]>>)
  /\ pagination = Controls(2, 2)

\* C34: showLoading() and showError() replace the whole items region,
\* hideLoading() removes a loading indicator and otherwise changes nothing,
\* and none of them changes Dataset, FilteredView, currentPage or the
\* handler registry.
C34_DisplayStatesReplaceItems ==
  [][lastOp'.name \in {"showLoading", "hideLoading", "showError"} =>
       /\ UNCHANGED <<data, filteredData, currentPage, eventListeners, attached>>
       /\ lastOp'.name = "showLoading" => container' = LoadingIndicator
       /\ lastOp'.name = "showError" =>
            (container'.kind = "error" /\ container'.items = <<>>)
       /\ lastOp'.name = "hideLoading" =>
            container' = (IF container.kind = "loading" THEN Blank ELSE container)]_vars

\* C34 witness: hideLoading() was called while items were on display and
\* they are still there.
C34_Witness ==
  /\ lastOp.name = "hideLoading" /\ phase = "ready"
  /\ container.kind = "items" /\ container.items = data /\ data # <<>>

\* C35: a successful load goes through: loading indicator shown (the state
\* `new` returns), source read, then in one step indicator removed, search
\* handlers wired, mount point resolved and first render, which therefore
\* shows the strip. While the fetch is pending no handler is registered or
\* attached and no item is rendered; when the source has been read Dataset =
\* FilteredView = the loaded sequence and currentPage = 1.
C35_LoadStepsInOrder ==
  /\ lastOp.name = "new" =>
       (container = LoadingIndicator /\ eventListeners = Registry(0, 0, 0)
        /\ attached = Attached(0, 0) /\ pagination = NoControls)
  /\ phase = "fetching" =>
       /\ eventListeners = Registry(0, 0, 0) /\ attached = Attached(0, 0)
       /\ container.kind # "items" /\ pagination = NoControls
       /\ ~paginationConfig.containerElement
  /\ lastOp.name = "load" =>
       /\ phase = "loaded" /\ data = filteredData /\ currentPage = 1
       /\ eventListeners = Registry(0, 0, 0) /\ attached = Attached(0, 0)
       /\ container.kind # "items"
  /\ lastOp.name = "init" =>
       /\ phase = "ready"
       /\ eventListeners.input = SetupSearch(Registry(0, 0, 0)).input
       /\ eventListeners.action = SetupSearch(Registry(0, 0, 0)).action
       /\ paginationConfig.containerElement =
            (paginationConfig.enabled /\ paginationConfig.selector # NoSelector)
       /\ container = RenderedItems(data, filteredData, currentPage, paginationConfig)
       /\ pagination = RenderedControls(NoControls, filteredData, currentPage,
                                        paginationConfig)

\* C35 witness: the fetch of two Records has ended and _init() has wired the
\* input of a declarative instance and rendered page 1 of 2 with its strip.
C35_Witness ==
  /\ lastOp.name = "init" /\ options.data.kind = "url" /\ options.declarative
  /\ Len(data) = 2 /\ filteredData = data /\ currentPage = 1
  /\ eventListeners.input = 1
  /\ container = ItemElements(<<data[1]>>) /\ pagination = Controls(2, 1)

\* C36: in a declarative instance with a search input (and maybe an action
\* control), once the load has succeeded the registry holds exactly one
\* input binding and exactly one click binding per action control, and as
\* many handlers are attached to the elements.
C36_DeclarativeSearchIsWiredOnce ==
  (options.declarative /\ options.inputElement /\ phase = "ready") =>
    LET actions == IF options.actionElement THEN 1 ELSE 0
    IN /\ eventListeners.input = 1 /\ attached.input = 1
       /\ eventListeners.action = actions /\ attached.action = actions

\* C36 witness: a declarative instance with input and action control is
\* initialized and a typed value has been searched through its input.
C36_Witness ==
  /\ options.declarative /\ options.inputElement /\ options.actionElement
  /\ phase = "ready" /\ lastOp.name = "debounced"
  /\ eventListeners.input = 1 /\ eventListeners.action = 1

\* C37: on a live instance every binding of the registry belongs to a
\* control on display: no more button bindings than buttons in the strip,
\* no more input and action bindings than wired elements; so the registry
\* does not grow from render to render.
C37_RegistryMatchesControls ==
  ~destroyed =>
    /\ eventListeners.buttons <= Len(StripButtons(pagination))
    /\ eventListeners.input <= (IF searchConfig.inputElement THEN 1 ELSE 0)
    /\ eventListeners.action <= (IF searchConfig.actionElement THEN 1 ELSE 0)

\* C38: when the action control is activated while the timeout of an input
\* event is pending, the immediate search supersedes the pending one: no
\* timeout is left to run a second search (and to reset currentPage after a
\* later goToPage).
C38_ActionClickSupersedesTimeout ==
  lastOp.name = "action" => ~timer

\* C39: while the fetch is pending, search(q) and goToPage(n) work on the
\* empty Dataset and raise nothing: Dataset and FilteredView are empty,
\* currentPage is 1, a search leaves the "no data" empty state. When the
\* source has been read FilteredView is the whole Dataset and currentPage is
\* 1, and the continuation of _init() renders exactly that.
C39_CallsDuringPendingLoad ==
  /\ [](phase = "fetching" =>
          /\ data = <<>> /\ filteredData = <<>> /\ currentPage = 1
          /\ error = NoError /\ unhandledRejection = NoError
          /\ lastOp.name = "search" => container = EmptyState(NoDataMessage)
          /\ lastOp.name = "goToPage" => container.kind \in {"loading", "empty-state"})
  /\ [](lastOp.name = "load" => (filteredData = data /\ currentPage = 1))
  /\ [][(lastOp.name = "load" /\ lastOp'.name = "init") =>
          /\ filteredData' = data' /\ currentPage' = 1
          /\ container' = RenderedItems(data', data', 1, paginationConfig')]_vars

\* C39 witness: a search made while the fetch was pending replaced the
\* loading indicator by the empty state; the fetch has now delivered two
\* Records and FilteredView holds both.
C39_Witness ==
  /\ lastOp.name = "load" /\ options.data.kind = "url"
  /\ container = EmptyState(NoDataMessage)
  /\ Len(data) = 2 /\ filteredData = data /\ currentPage = 1

\* C33: between scans getInstance(id) is an instance created for a
\* candidate with that id and still live; and once destroyAll() has emptied
\* the registry every instance the scans created has been destroyed, also
\* after a second scan and with two candidates under one id.
C33_RegistryCoversEveryInstance ==
  scan.position = Len(scan.containers) =>
    /\ \A id \in RegistryIds :
          getInstance(id) # 0 =>
            /\ scan.containers[scan.created[getInstance(id)]].id = id
            /\ getInstance(id) \notin scan.destroyed
    /\ (\A id \in RegistryIds : getInstance(id) = 0) =>
          \A k \in 1..Len(scan.created) : k \in scan.destroyed

====
